---- MODULE Spec2Model ----
(***************************************************************************)
(* WebRunnrCore (packages/core/src/index.ts): the facade that keeps one    *)
(* executor Worker per language, performs the readiness handshake, relays  *)
(* an execution request to the worker and folds the worker's events into   *)
(* an ExecutionResult.                                                     *)
(*                                                                         *)
(* Strings are sequences of tokens, string concatenation is \o.  Every     *)
(* step of the model is one task of the single-threaded event loop: a      *)
(* public method call, the dispatch of one worker message to the           *)
(* registered listeners, a worker fault, a timer firing, or the settling   *)
(* of an input handler's promise.  The promise continuations a task        *)
(* triggers run in the microtask checkpoint of that task, hence in the     *)
(* same step.  A terminated Worker delivers no further message or fault.   *)
(* executionTime (Date.now() differences) is not modelled.                 *)
(***************************************************************************)
EXTENDS Integers, Sequences, FiniteSets, TLC

\* ---------------------------------------------------------------- bounds
MaxCalls == 2        \* invocations of executeWithEvents / execute alive at once
MaxWorkers == 2      \* Worker objects constructed over a run
MaxEvents == 2       \* non-terminal worker messages forwarded to one invocation
MaxPending == 1      \* input handler promises unsettled at once

Calls == 1 .. MaxCalls
WorkerIds == 1 .. MaxWorkers

\* ---------------------------------------------------------------- values
None == "none"

\* a JavaScript Map is a function whose domain is the set of keys present
MapSet(m, k, v) == [x \in DOMAIN m \cup {k} |-> IF x = k THEN v ELSE m[x]]
MapDelete(m, k) == [x \in DOMAIN m \ {k} |-> m[x]]
MapClear == [x \in {} |-> None]

python == <<"p", "y", "t", "h", "o", "n">>
javascript == <<"j", "a", "v", "a", "s", "c", "r", "i", "p", "t">>
rust == <<"r", "u", "s", "t">>
Languages == {python, javascript, rust}
Python == <<"P", "y", "t", "h", "o", "n">>
RUST == <<"R", "U", "S", "T">>
LanguageInputs == Languages \cup {Python, RUST}

LowerChar(ch) ==
  CASE ch = "P" -> "p"
    [] ch = "R" -> "r"
    [] ch = "U" -> "u"
    [] ch = "S" -> "s"
    [] ch = "T" -> "t"
    [] OTHER -> ch

toLowerCase(str) == [i \in DOMAIN str |-> LowerChar(str[i])]

DefaultPaths ==
  MapSet(MapSet(MapClear, python, "./packages/py-executor/dist/index.js"),
         javascript, "./packages/js-executor/dist/index.js")
CustomPaths == {"./custom-executor.js"}

Handlers == {"h1", "h2"}
DefaultHandler == "defaultInputHandler"
Answers == {<<"Alice">>}
Data == {<<"a">>, <<"b">>}
Boom == <<"boom">>
FaultMessage == <<"fault">>
Timeouts == {0, 1000}
Apis == {"executeWithEvents", "execute"}
Prompt == <<"name?">>

\* what a worker may post: the ExecutionEvent variants and one unknown type
Msg(t, d, p) == [type |-> t, data |-> d, prompt |-> p]
Messages ==
  {Msg(t, <<>>, <<>>) : t \in {"ready", "done", "progress"}}
    \cup {Msg("input_request", <<>>, Prompt)}
    \cup {Msg("stdout", d, <<>>) : d \in Data}
    \cup {Msg("stderr", <<"e">>, <<>>), Msg("error", Boom, <<>>)}

\* the closures registered on a worker, named by kind and invocation
NoListener == [kind |-> "none", call |-> 0]
Spent == [kind |-> "spent", call |-> 0]
HsListener(c) == [kind |-> "hs", call |-> c]
ExListener(c) == [kind |-> "ex", call |-> c]

VARIABLES
  workers,        \* this.workers: Map language -> Worker
  workerPaths,    \* this.workerPaths: Map language -> entry point
  workerReady,    \* this.workerReady: Map language -> boolean
  inputHandlers,  \* this.inputHandlers: Map language -> handler
  nextWorker,     \* identity of the next Worker object to be constructed
  alive,          \* Worker objects constructed and not terminated
  builtFrom,      \* Worker -> the entry point it was constructed with
  listeners,      \* Worker -> sequence of registered 'message' listeners
  onerror,        \* Worker -> the closure in worker.onerror
  hsTimer,        \* invocations whose 30 s handshake timer is armed
  exTimer,        \* invocations whose execution timer is armed
  call,           \* invocation -> its arguments, locals, position and outcome
  pending,        \* promises of registered input handlers not settled yet
  readyFrom,      \* history: workers whose ready message a handshake has received
  failed,         \* history: live Worker -> how a promise waiting on it was rejected
  posted,         \* latest step: the postMessage calls, <<worker, message>> in order
  inputs,         \* latest step: the input requests processed
  settled,        \* latest step: the input handler outcomes turned into responses
  returns         \* latest step: invocation -> its record as it returned

vars ==
  <<workers, workerPaths, workerReady, inputHandlers, nextWorker, alive, builtFrom,
    listeners, onerror, hsTimer, exTimer, call, pending, readyFrom, failed, posted,
    inputs, settled, returns>>

\* The state as one record; an operation of the program is an operator from
\* records to records, and Becomes makes its result the next state.
State ==
  [workers |-> workers, workerPaths |-> workerPaths, workerReady |-> workerReady,
   inputHandlers |-> inputHandlers, nextWorker |-> nextWorker, alive |-> alive,
   builtFrom |-> builtFrom, listeners |-> listeners, onerror |-> onerror,
   hsTimer |-> hsTimer, exTimer |-> exTimer, call |-> call, pending |-> pending,
   readyFrom |-> readyFrom, failed |-> failed, posted |-> <<>>, inputs |-> <<>>,
   settled |-> <<>>]

IdleCall ==
  [pc |-> "idle", api |-> "executeWithEvents", language |-> python, inputHandler |-> None,
   requestTimeout |-> 0, timeout |-> 0, worker |-> 0,
   stdout |-> <<>>, stderr |-> <<>>, success |-> FALSE,
   events |-> <<>>, ending |-> None, promise |-> "pending",
   inner |-> [stdout |-> <<>>, stderr |-> <<>>, success |-> FALSE],
   result |-> [stdout |-> <<>>, stderr |-> <<>>, success |-> FALSE]]

\* Nothing of invocation c can have an effect any more: it has returned and no
\* timer, listener or pending input handler of it is left (the closure left in
\* worker.onerror only clears and rejects what is cleared and settled already).
Finished(s, c) ==
  /\ s.call[c].pc = "returned"
  /\ c \notin s.hsTimer \cup s.exTimer
  /\ \A w \in WorkerIds : \A i \in DOMAIN s.listeners[w] : s.listeners[w][i].call # c
  /\ \A i \in DOMAIN s.pending : s.pending[i].call # c

Becomes(s) ==
  /\ workers' = s.workers
  /\ workerPaths' = s.workerPaths
  /\ workerReady' = s.workerReady
  /\ inputHandlers' = s.inputHandlers
  /\ nextWorker' = s.nextWorker
  /\ alive' = s.alive
  /\ builtFrom' = s.builtFrom
  /\ listeners' = s.listeners
  /\ onerror' = [w \in WorkerIds |->
                   IF s.onerror[w].call \in Calls /\ Finished(s, s.onerror[w].call)
                     THEN Spent ELSE s.onerror[w]]
  /\ hsTimer' = s.hsTimer
  /\ exTimer' = s.exTimer
  /\ call' = [c \in Calls |-> IF Finished(s, c) THEN IdleCall ELSE s.call[c]]
  /\ pending' = s.pending
  /\ readyFrom' = s.readyFrom
  /\ failed' = s.failed
  /\ posted' = s.posted
  /\ inputs' = s.inputs
  /\ settled' = s.settled
  /\ returns' = [c \in {d \in Calls : s.call[d].pc = "returned" /\ call[d].pc # "returned"}
                   |-> s.call[c]]

\* constructor and setupDefaultExecutors, restricted to the languages of the model
Init ==
  /\ workers = MapClear
  /\ workerPaths = DefaultPaths
  /\ workerReady = MapClear
  /\ inputHandlers = MapClear
  /\ nextWorker = 1
  /\ alive = {}
  /\ builtFrom = [w \in WorkerIds |-> None]
  /\ listeners = [w \in WorkerIds |-> <<>>]
  /\ onerror = [w \in WorkerIds |-> NoListener]
  /\ hsTimer = {}
  /\ exTimer = {}
  /\ call = [c \in Calls |-> IdleCall]
  /\ pending = <<>>
  /\ readyFrom = {}
  /\ failed = [w \in WorkerIds |-> None]
  /\ posted = <<>>
  /\ inputs = <<>>
  /\ settled = <<>>
  /\ returns = MapClear

\* ------------------------------------------------------------ helpers
Remove(seq, x) == SelectSeq(seq, LAMBDA y : y # x)

RECURSIVE Concat(_)
Concat(seqs) == IF seqs = <<>> THEN <<>> ELSE Head(seqs) \o Concat(Tail(seqs))

Language(s, c) == s.call[c].language

\* Worker.terminate(): the worker is stopped at once and its event target never
\* dispatches again, so the closures registered on it are unreachable
TerminateWorker(s, w) ==
  [s EXCEPT !.alive = @ \ {w}, !.listeners[w] = <<>>, !.onerror[w] = NoListener,
            !.failed[w] = None]

\* Worker.postMessage(m)
PostMessage(s, w, m) == [s EXCEPT !.posted = Append(@, <<w, m>>)]

\* the caller-supplied eventHandler(event) of invocation c
EventHandler(s, c, ev) == [s EXCEPT !.call[c].events = Append(@, ev)]

\* ------------------------------------------------------------ execute
\* the accumulators of execute()'s own event handler, as of the events seen
LocalStdout(events) ==
  Concat([i \in DOMAIN events |->
            IF events[i].type = "stdout" THEN events[i].data ELSE <<>>])
LocalStderr(events) ==
  Concat([i \in DOMAIN events |->
            IF events[i].type \in {"stderr", "error"} THEN events[i].data ELSE <<>>])

\* execute(): the object built from executeWithEvents' result (`||` takes the
\* right operand when the left one is the empty string)
ExecuteResult(inner, events) ==
  [stdout |-> IF inner.stdout # <<>> THEN inner.stdout ELSE LocalStdout(events),
   stderr |-> IF inner.stderr # <<>> THEN inner.stderr ELSE LocalStderr(events),
   success |-> inner.success]

\* executeWithEvents' return statement, and execute's on top of it
Return(s, c, out, err, ok, how) ==
  LET inner == [stdout |-> out, stderr |-> err, success |-> ok]
      res == IF s.call[c].api = "execute"
               THEN ExecuteResult(inner, s.call[c].events)
               ELSE inner
  IN [s EXCEPT !.call[c].pc = "returned",
               !.call[c].ending = how,
               !.call[c].promise = "fulfilled",
               !.call[c].inner = inner,
               !.call[c].result = res]

\* (mutant) the catch block keeps what executeOnWorker had accumulated
CatchPartial(s, c, message, how) ==
  Return(EventHandler(s, c, Msg("error", message, <<>>)), c,
         s.call[c].stdout, s.call[c].stderr \o <<"Execution failed: ">> \o message,
         FALSE, how)

\* executeWithEvents' catch block
Catch(s, c, message, how) ==
  Return(EventHandler(s, c, Msg("error", message, <<>>)), c,
         <<>>, <<"Execution failed: ">> \o message, FALSE, how)

\* ------------------------------------------------------------ executeOnWorker
\* lines 85-91 and the synchronous body of executeOnWorker
ExecuteOnWorker(s, c, w) ==
  LET l == Language(s, c)
      h == s.call[c].inputHandler
      s1 == IF h # None THEN [s EXCEPT !.inputHandlers = MapSet(@, l, h)] ELSE s
      s2 == [s1 EXCEPT !.call[c].pc = "running",
                       !.call[c].worker = w,
                       !.call[c].stdout = <<>>,
                       !.call[c].stderr = <<>>,
                       !.call[c].success = FALSE,
                       !.exTimer = IF s.call[c].timeout # 0 THEN @ \cup {c} ELSE @,
                       !.listeners[w] = Append(@, ExListener(c)),
                       !.onerror[w] = ExListener(c)]
  IN PostMessage(s2, w, [type |-> "code", value |-> <<>>])

\* cleanup() of executeOnWorker
Cleanup(s, c, w) ==
  [s EXCEPT !.exTimer = @ \ {c}, !.listeners[w] = Remove(@, ExListener(c))]

\* (mutant) the error case resolves with success = true
ResolveExecutionSucceeds(s, c, ok) ==
  IF s.call[c].pc = "running"
    THEN Return(s, c, s.call[c].stdout, s.call[c].stderr, TRUE,
                IF ok THEN "done" ELSE "error")
    ELSE s

\* resolve(...) of executeOnWorker's promise: settles it only once
ResolveExecution(s, c, ok) ==
  IF s.call[c].pc = "running"
    THEN Return(s, c, s.call[c].stdout, s.call[c].stderr, ok,
                IF ok THEN "done" ELSE "error")
    ELSE s

\* (mutant) a failed handler leaves the request unanswered
InputResponseDropsFailure(s, c, w, ok, answer) ==
  LET s1 == [s EXCEPT !.settled = Append(@, [call |-> c, worker |-> w, ok |-> ok,
                                             answer |-> answer])]
  IN IF ok THEN PostMessage(s1, w, [type |-> "input_response", value |-> answer]) ELSE s1

\* the try/catch around the awaited handler: its answer, or '' when it failed
InputResponse(s, c, w, ok, answer) ==
  PostMessage([s EXCEPT !.settled = Append(@, [call |-> c, worker |-> w, ok |-> ok,
                                               answer |-> answer])],
              w, [type |-> "input_response", value |-> IF ok THEN answer ELSE <<>>])

\* the handler an input request of language l is answered by
InputHandlerFor(s, l) ==
  IF python \in DOMAIN s.inputHandlers THEN s.inputHandlers[python] ELSE DefaultHandler

\* the input_request case: the handler is looked up and called at once.
\* defaultInputHandler returns window.prompt(prompt) || '' when window.prompt
\* exists (hasPrompt) and throws otherwise; being synchronous, it is answered
\* within the same task.  A registered handler's promise settles later.
InputRequest(s, c, w, hasPrompt, answer) ==
  LET l == Language(s, c)
      h == InputHandlerFor(s, l)
      s1 == [s EXCEPT !.inputs = Append(@, [call |-> c, language |-> l, handler |-> h])]
  IN IF h = DefaultHandler
       THEN InputResponse(s1, c, w, hasPrompt, answer)
       ELSE [s1 EXCEPT !.pending = Append(@, [call |-> c, worker |-> w])]

\* (mutant) the stderr case appends to the stdout accumulator
ExecutionMessageMixed(s, c, w, m, hasPrompt, answer) ==
  LET s1 == EventHandler(s, c, m)
  IN CASE m.type \in {"stdout", "stderr"} -> [s1 EXCEPT !.call[c].stdout = @ \o m.data]
       [] m.type = "done" ->
            ResolveExecution(Cleanup([s1 EXCEPT !.call[c].success = TRUE], c, w), c, TRUE)
       [] m.type = "error" ->
            ResolveExecution(Cleanup([s1 EXCEPT !.call[c].stderr = @ \o m.data], c, w),
                             c, FALSE)
       [] m.type = "input_request" -> InputRequest(s1, c, w, hasPrompt, answer)
       [] OTHER -> s1

\* (mutant) the error case rejects, as a fault does
ExecutionMessageRejects(s, c, w, m, hasPrompt, answer) ==
  LET s1 == EventHandler(s, c, m)
  IN CASE m.type = "stdout" -> [s1 EXCEPT !.call[c].stdout = @ \o m.data]
       [] m.type = "stderr" -> [s1 EXCEPT !.call[c].stderr = @ \o m.data]
       [] m.type = "done" ->
            ResolveExecution(Cleanup([s1 EXCEPT !.call[c].success = TRUE], c, w), c, TRUE)
       [] m.type = "error" ->
            IF s1.call[c].pc = "running"
              THEN Catch(Cleanup(s1, c, w), c, m.data, "error")
              ELSE Cleanup(s1, c, w)
       [] m.type = "input_request" -> InputRequest(s1, c, w, hasPrompt, answer)
       [] OTHER -> s1

\* (mutant) only the messages the switch has a case for are forwarded
ExecutionMessageFilters(s, c, w, m, hasPrompt, answer) ==
  LET known == m.type \in {"stdout", "stderr", "done", "error", "input_request"}
      s1 == IF known THEN EventHandler(s, c, m) ELSE s
  IN CASE m.type = "stdout" -> [s1 EXCEPT !.call[c].stdout = @ \o m.data]
       [] m.type = "stderr" -> [s1 EXCEPT !.call[c].stderr = @ \o m.data]
       [] m.type = "done" ->
            ResolveExecution(Cleanup([s1 EXCEPT !.call[c].success = TRUE], c, w), c, TRUE)
       [] m.type = "error" ->
            ResolveExecution(Cleanup([s1 EXCEPT !.call[c].stderr = @ \o m.data], c, w),
                             c, FALSE)
       [] m.type = "input_request" -> InputRequest(s1, c, w, hasPrompt, answer)
       [] OTHER -> s1

\* messageHandler of executeOnWorker
ExecutionMessage(s, c, w, m, hasPrompt, answer) ==
  LET s1 == EventHandler(s, c, m)
  IN CASE m.type = "stdout" -> [s1 EXCEPT !.call[c].stdout = @ \o m.data]
       [] m.type = "stderr" -> [s1 EXCEPT !.call[c].stderr = @ \o m.data]
       [] m.type = "done" ->
            ResolveExecution(Cleanup([s1 EXCEPT !.call[c].success = TRUE], c, w), c, TRUE)
       [] m.type = "error" ->
            ResolveExecution(Cleanup([s1 EXCEPT !.call[c].stderr = @ \o m.data], c, w),
                             c, FALSE)
       [] m.type = "input_request" -> InputRequest(s1, c, w, hasPrompt, answer)
       [] OTHER -> s1

\* (mutant) the fault handler rejects without cleanup(), as the timer does
ExecutionFaultLeaks(s, c, w) ==
  IF s.call[c].pc = "running"
    THEN Catch([s EXCEPT !.failed[w] = "fault"], c,
               <<"Worker error during execution: ">> \o FaultMessage, "fault")
    ELSE s

\* worker.onerror installed by executeOnWorker
ExecutionFault(s, c, w) ==
  LET s1 == Cleanup(s, c, w)
  IN IF s1.call[c].pc = "running"
       THEN Catch([s1 EXCEPT !.failed[w] = "fault"], c,
                  <<"Worker error during execution: ">> \o FaultMessage, "fault")
       ELSE s1

\* ------------------------------------------------------------ waitForWorkerReady
\* the synchronous body of waitForWorkerReady
WaitForWorkerReady(s, c, w) ==
  [s EXCEPT !.hsTimer = @ \cup {c},
            !.listeners[w] = Append(@, HsListener(c)),
            !.onerror[w] = HsListener(c),
            !.call[c].pc = "handshake",
            !.call[c].worker = w]

\* reject(...) of the handshake promise, taken up by executeWithEvents' catch
RejectHandshake(s, c, message, how) ==
  LET w == s.call[c].worker
  IN IF s.call[c].pc = "handshake"
       THEN Catch(IF w \in s.alive THEN [s EXCEPT !.failed[w] = how] ELSE s,
                  c, message, how)
       ELSE s

\* messageHandler of waitForWorkerReady
HandshakeMessage(s, c, w, m) ==
  LET off == [s EXCEPT !.hsTimer = @ \ {c}, !.listeners[w] = Remove(@, HsListener(c))]
  IN CASE m.type = "ready" ->
            LET s1 == [off EXCEPT !.workerReady = MapSet(@, Language(s, c), TRUE),
                                  !.readyFrom = @ \cup {w}]
            IN IF s1.call[c].pc = "handshake" THEN ExecuteOnWorker(s1, c, w) ELSE s1
       [] m.type = "error" ->
            RejectHandshake(off, c, <<"Worker initialization failed: ">> \o m.data, "init")
       [] OTHER -> s

\* worker.onerror installed by waitForWorkerReady
HandshakeFault(s, c, w) ==
  RejectHandshake([s EXCEPT !.hsTimer = @ \ {c},
                            !.listeners[w] = Remove(@, HsListener(c))],
                  c, <<"Worker error: ">> \o FaultMessage, "init")

\* ------------------------------------------------------------ getOrCreateWorker
\* (mutant) the session is registered before the entry point is looked up
GetOrCreateWorkerEager(s, c) ==
  LET l == Language(s, c)
      existing == IF l \in DOMAIN s.workers THEN s.workers[l] ELSE 0
      ready == l \in DOMAIN s.workerReady /\ s.workerReady[l]
      s1 == IF existing # 0 THEN TerminateWorker(s, existing) ELSE s
      w == s.nextWorker
      s2 == [s1 EXCEPT !.nextWorker = w + 1,
                       !.alive = @ \cup {w},
                       !.builtFrom[w] = IF l \in DOMAIN s.workerPaths
                                          THEN s.workerPaths[l] ELSE None,
                       !.workers = MapSet(@, l, w),
                       !.workerReady = MapSet(@, l, FALSE)]
  IN IF existing # 0 /\ ready
       THEN ExecuteOnWorker(s, c, existing)
       ELSE IF l \notin DOMAIN s.workerPaths
              THEN Catch(s2, c, <<"No executor found for language: ">> \o l, "setup")
              ELSE WaitForWorkerReady(s2, c, w)

\* (mutant) the worker of a session that is not ready is left running
GetOrCreateWorkerKeeps(s, c) ==
  LET l == Language(s, c)
      existing == IF l \in DOMAIN s.workers THEN s.workers[l] ELSE 0
      ready == l \in DOMAIN s.workerReady /\ s.workerReady[l]
      w == s.nextWorker
      s2 == [s EXCEPT !.nextWorker = w + 1,
                      !.alive = @ \cup {w},
                      !.builtFrom[w] = s.workerPaths[l],
                      !.workers = MapSet(@, l, w),
                      !.workerReady = MapSet(@, l, FALSE)]
  IN IF existing # 0 /\ ready
       THEN ExecuteOnWorker(s, c, existing)
       ELSE IF l \notin DOMAIN s.workerPaths
              THEN Catch(s, c, <<"No executor found for language: ">> \o l, "setup")
              ELSE WaitForWorkerReady(s2, c, w)

\* (mutant) a session that is not ready is waited for instead of replaced
GetOrCreateWorkerWaits(s, c) ==
  LET l == Language(s, c)
      existing == IF l \in DOMAIN s.workers THEN s.workers[l] ELSE 0
      ready == l \in DOMAIN s.workerReady /\ s.workerReady[l]
      w == s.nextWorker
      s2 == [s EXCEPT !.nextWorker = w + 1,
                      !.alive = @ \cup {w},
                      !.builtFrom[w] = s.workerPaths[l],
                      !.workers = MapSet(@, l, w),
                      !.workerReady = MapSet(@, l, FALSE)]
  IN IF existing # 0 /\ ready
       THEN ExecuteOnWorker(s, c, existing)
       ELSE IF l \notin DOMAIN s.workerPaths
              THEN Catch(s, c, <<"No executor found for language: ">> \o l, "setup")
              ELSE IF existing # 0 /\ existing \in s.alive
                     THEN WaitForWorkerReady(s, c, existing)
                     ELSE WaitForWorkerReady(s2, c, w)

GetOrCreateWorker(s, c) ==
  LET l == Language(s, c)
      existing == IF l \in DOMAIN s.workers THEN s.workers[l] ELSE 0
      ready == l \in DOMAIN s.workerReady /\ s.workerReady[l]
      s1 == IF existing # 0 THEN TerminateWorker(s, existing) ELSE s
      w == s.nextWorker
      s2 == [s1 EXCEPT !.nextWorker = w + 1,
                       !.alive = @ \cup {w},
                       !.builtFrom[w] = s.workerPaths[l],
                       !.workers = MapSet(@, l, w),
                       !.workerReady = MapSet(@, l, FALSE)]
  IN IF existing # 0 /\ ready
       THEN ExecuteOnWorker(s, c, existing)
       ELSE IF l \notin DOMAIN s.workerPaths
              THEN Catch(s1, c, <<"No executor found for language: ">> \o l, "setup")
              ELSE WaitForWorkerReady(s2, c, w)

\* getOrCreateWorker reaches `new Worker`
Constructs(s, l) ==
  /\ ~(l \in DOMAIN s.workers /\ l \in DOMAIN s.workerReady /\ s.workerReady[l])
  /\ l \in DOMAIN s.workerPaths

\* ------------------------------------------------------------ dispatch
\* one 'message' event of worker w: the listeners registered when the dispatch
\* starts run in registration order, unless removed in the meantime
RECURSIVE Dispatch(_, _, _, _, _, _)
Dispatch(s, w, m, hasPrompt, answer, todo) ==
  IF todo = <<>> THEN s
  ELSE LET lst == Head(todo)
           on == \E i \in DOMAIN s.listeners[w] : s.listeners[w][i] = lst
           s1 == IF ~on THEN s
                 ELSE IF lst.kind = "hs" THEN HandshakeMessage(s, lst.call, w, m)
                 ELSE ExecutionMessage(s, lst.call, w, m, hasPrompt, answer)
       IN Dispatch(s1, w, m, hasPrompt, answer, Tail(todo))

\* ------------------------------------------------------------ actions
\* executeWithEvents(request, eventHandler, options), or execute(request), which
\* passes no options.  requestTimeout is request.timeout, which neither reads;
\* timeout is options.timeout.  The invocation takes the first free record.
ExecuteWithEvents(c, language, requestTimeout, api, inputHandler, timeout) ==
  LET l == toLowerCase(language)
      s == [State EXCEPT !.call[c] = [IdleCall EXCEPT !.language = l,
                                                      !.requestTimeout = requestTimeout,
                                                      !.api = api,
                                                      !.inputHandler = inputHandler,
                                                      !.timeout = timeout]]
  IN /\ call[c].pc = "idle"
     /\ \A d \in 1 .. c - 1 : call[d].pc # "idle"
     /\ api = "execute" => inputHandler = None /\ timeout = 0
     /\ Constructs(State, l) => nextWorker <= MaxWorkers
     /\ Becomes(GetOrCreateWorker(s, c))

\* worker w posts message m.  hasPrompt and answer are what defaultInputHandler
\* finds if the message makes it run; MaxEvents and MaxPending cap the run.
WorkerMessage(w, m, hasPrompt, answer) ==
  /\ w \in alive
  /\ listeners[w] # <<>>
  /\ \A i \in DOMAIN listeners[w] :
       listeners[w][i].kind = "ex" =>
         Len(call[listeners[w][i].call].events)
           < MaxEvents + (IF m.type \in {"done", "error"} THEN 1 ELSE 0)
  /\ m.type = "input_request" => Len(pending) < MaxPending
  /\ Becomes(Dispatch(State, w, m, hasPrompt, answer, listeners[w]))

WorkerFault(w) ==
  /\ w \in alive
  /\ onerror[w].kind \in {"hs", "ex"}
  /\ Becomes(IF onerror[w].kind = "hs"
               THEN HandshakeFault(State, onerror[w].call, w)
               ELSE ExecutionFault(State, onerror[w].call, w))

\* the 30 s timer of waitForWorkerReady fires
HandshakeTimeout(c) ==
  /\ c \in hsTimer
  /\ Becomes(RejectHandshake([State EXCEPT !.hsTimer = @ \ {c}], c,
                             <<"Worker for ">> \o call[c].language
                               \o <<" failed to initialize within timeout">>,
                             "init timeout"))

\* the timer of executeOnWorker fires
ExecutionTimeout(c) ==
  /\ c \in exTimer
  /\ LET s == [State EXCEPT !.exTimer = @ \ {c}]
     IN Becomes(IF call[c].pc = "running"
                  THEN Catch(s, c, <<"Execution timeout">>, "timeout")
                  ELSE s)

\* the promise returned by a registered input handler settles
InputSettles(i, ok, answer) ==
  /\ i \in DOMAIN pending
  /\ LET p == pending[i]
         s == [State EXCEPT !.pending = [j \in 1 .. Len(@) - 1 |->
                                           IF j < i THEN @[j] ELSE @[j + 1]]]
     IN Becomes(InputResponse(s, p.call, p.worker, ok, answer))

\* (mutant) the entry point is stored under the language as given
registerExecutorAsGiven(language, workerPath) ==
  Becomes([State EXCEPT !.workerPaths = MapSet(@, language, workerPath)])

registerExecutor(language, workerPath) ==
  Becomes([State EXCEPT !.workerPaths = MapSet(@, toLowerCase(language), workerPath)])

setInputHandler(language, handler) ==
  Becomes([State EXCEPT !.inputHandlers = MapSet(@, toLowerCase(language), handler)])

RECURSIVE TerminateAll(_, _)
TerminateAll(s, ws) ==
  IF ws = {} THEN s
  ELSE LET w == CHOOSE x \in ws : TRUE
       IN TerminateAll(TerminateWorker(s, w), ws \ {w})

\* (mutant) the input handlers survive terminate()
terminateKeepsHandlers ==
  Becomes([TerminateAll(State, {workers[l] : l \in DOMAIN workers})
             EXCEPT !.workers = MapClear,
                    !.workerReady = MapClear])

terminate ==
  Becomes([TerminateAll(State, {workers[l] : l \in DOMAIN workers})
             EXCEPT !.workers = MapClear,
                    !.workerReady = MapClear,
                    !.inputHandlers = MapClear])

\* (mutant) the session is looked up under the language as given
terminateLanguageWorkerAsGiven(language) ==
  LET l == language
  IN Becomes(IF l \in DOMAIN workers
               THEN [TerminateWorker(State, workers[l])
                       EXCEPT !.workers = MapDelete(@, l),
                              !.workerReady = MapDelete(@, l)]
               ELSE State)

terminateLanguageWorker(language) ==
  LET l == toLowerCase(language)
  IN Becomes(IF l \in DOMAIN workers
               THEN [TerminateWorker(State, workers[l])
                       EXCEPT !.workers = MapDelete(@, l),
                              !.workerReady = MapDelete(@, l)]
               ELSE State)

\* the queries: they read workerPaths and change nothing
isLanguageSupported(language) == toLowerCase(language) \in DOMAIN workerPaths
getSupportedLanguages == DOMAIN workerPaths

\* ------------------------------------------------------------ specifications
\* What an input handler call can come to: an answer, or a failure (the default
\* handler fails when there is no window.prompt).  Only an input request asks.
Outcomes ==
  {[ok |-> TRUE, answer |-> a] : a \in Answers \cup {<<>>}}
    \cup {[ok |-> FALSE, answer |-> <<>>]}
Asks(m, env) == m.type # "input_request" => env = [ok |-> FALSE, answer |-> <<>>]

\* The event stream of executions: every message type and both APIs; input
\* requests go to the default handler.
Next ==
  \/ \E c \in Calls, language \in {python, Python, rust},
        api \in Apis, timeout \in Timeouts :
       ExecuteWithEvents(c, language, 0, api, None, timeout)
  \/ \E w \in WorkerIds, m \in Messages, env \in Outcomes :
       Asks(m, env) /\ WorkerMessage(w, m, env.ok, env.answer)
  \/ \E w \in WorkerIds : WorkerFault(w)
  \/ \E c \in Calls : HandshakeTimeout(c)
  \/ \E c \in Calls : ExecutionTimeout(c)
  \/ terminate
  \/ \E language \in {python} : terminateLanguageWorker(language)

Spec == Init /\ [][Next]_vars

\* Input handling: executions made one after another in two languages,
\* registered and per-call handlers, and the messages of an interactive program.
InputMessages == {m \in Messages : m.type \in {"ready", "input_request", "done"}}

NextInput ==
  \/ \E c \in Calls, language \in {python, javascript}, inputHandler \in {"h2", None} :
       /\ \A d \in Calls : call[d].pc \notin {"handshake", "running"}
       /\ ExecuteWithEvents(c, language, 0, "executeWithEvents", inputHandler, 0)
  \/ \E w \in WorkerIds, m \in InputMessages, env \in Outcomes :
       Asks(m, env) /\ WorkerMessage(w, m, env.ok, env.answer)
  \/ \E i \in 1 .. MaxPending, out \in Outcomes :
       InputSettles(i, out.ok, out.answer)
  \/ \E language \in {javascript, Python}, handler \in Handlers :
       setInputHandler(language, handler)
  \/ terminate

SpecInput == Init /\ [][NextInput]_vars

\* The session registry: concurrent requests, replacement and termination of
\* workers, registration of entry points.
RegistryMessages ==
  {m \in Messages : m.type \in {"ready", "done"}} \cup {Msg("error", Boom, <<>>)}

RegistryInputs == {python, Python, rust}

NextRegistry ==
  \/ \E c \in Calls, language \in RegistryInputs, timeout \in Timeouts :
       ExecuteWithEvents(c, language, 0, "executeWithEvents", None, timeout)
  \/ \E w \in WorkerIds, m \in RegistryMessages : WorkerMessage(w, m, FALSE, <<>>)
  \/ \E w \in WorkerIds : WorkerFault(w)
  \/ \E c \in Calls : HandshakeTimeout(c)
  \/ \E c \in Calls : ExecutionTimeout(c)
  \/ \E language \in RegistryInputs, workerPath \in CustomPaths :
       registerExecutor(language, workerPath)
  \/ terminate
  \/ \E language \in RegistryInputs : terminateLanguageWorker(language)

SpecRegistry == Init /\ [][NextRegistry]_vars

\* The public lifecycle methods: sessions of two languages, per-call and
\* registered input handlers, registration of entry points, both terminations.
LifecycleMessages == {m \in Messages : m.type \in {"ready", "done"}}

NextLifecycle ==
  \/ \E c \in Calls, language \in {Python, RUST}, inputHandler \in {"h1", None} :
       ExecuteWithEvents(c, language, 0, "executeWithEvents", inputHandler, 0)
  \/ \E w \in WorkerIds, m \in LifecycleMessages : WorkerMessage(w, m, FALSE, <<>>)
  \/ \E c \in Calls : HandshakeTimeout(c)
  \/ \E language \in {python, RUST}, workerPath \in CustomPaths :
       registerExecutor(language, workerPath)
  \/ \E language \in {RUST}, handler \in {"h2"} : setInputHandler(language, handler)
  \/ terminate
  \/ \E language \in {Python, RUST, javascript} : terminateLanguageWorker(language)

SpecLifecycle == Init /\ [][NextLifecycle]_vars

\* Executions of one language, one after another or overlapping on the same
\* session: every message type, input handlers that answer later, and the
\* execution timer.
NextForward ==
  \/ \E c \in Calls, inputHandler \in {"h1", None}, timeout \in Timeouts :
       ExecuteWithEvents(c, python, 0, "executeWithEvents", inputHandler, timeout)
  \/ \E w \in WorkerIds, m \in Messages, env \in Outcomes :
       Asks(m, env) /\ WorkerMessage(w, m, env.ok, env.answer)
  \/ \E i \in 1 .. MaxPending, out \in Outcomes : InputSettles(i, out.ok, out.answer)
  \/ \E c \in Calls : ExecutionTimeout(c)

SpecForward == Init /\ [][NextForward]_vars

\* Executions of one language run one after another, each call returning
\* before the next starts, some of them ended by the execution timer; the
\* worker asks for input.
NextSerial ==
  \/ \E c \in Calls, inputHandler \in {"h1", None}, timeout \in Timeouts :
       /\ \A d \in Calls : call[d].pc \notin {"handshake", "running"}
       /\ ExecuteWithEvents(c, python, 0, "executeWithEvents", inputHandler, timeout)
  \/ \E w \in WorkerIds, m \in InputMessages, env \in Outcomes :
       Asks(m, env) /\ WorkerMessage(w, m, env.ok, env.answer)
  \/ \E i \in 1 .. MaxPending, out \in Outcomes : InputSettles(i, out.ok, out.answer)
  \/ \E c \in Calls : ExecutionTimeout(c)

SpecSerial == Init /\ [][NextSerial]_vars

\* Executions with and without timeouts whose worker and input handler may
\* stay silent for ever and whose session may be terminated or replaced under
\* them.  The timers of the handshake and of the execution fire once armed
\* (setTimeout); nothing else is bound to happen.
NextLive ==
  \/ \E c \in Calls, requestTimeout \in Timeouts, timeout \in Timeouts :
       ExecuteWithEvents(c, python, requestTimeout, "executeWithEvents", "h1", timeout)
  \/ \E w \in WorkerIds, m \in InputMessages, env \in Outcomes :
       Asks(m, env) /\ WorkerMessage(w, m, env.ok, env.answer)
  \/ \E i \in 1 .. MaxPending, out \in Outcomes : InputSettles(i, out.ok, out.answer)
  \/ \E c \in Calls : HandshakeTimeout(c)
  \/ \E c \in Calls : ExecutionTimeout(c)
  \/ terminate
  \/ terminateLanguageWorker(python)

TimersFire ==
  \A c \in Calls : WF_vars(HandshakeTimeout(c)) /\ WF_vars(ExecutionTimeout(c))

SpecLive == Init /\ [][NextLive]_vars /\ TimersFire

\* ------------------------------------------------------------ properties
\* the payloads of the events of one type, concatenated in the order received
RECURSIVE Payloads(_, _)
Payloads(events, type) ==
  IF events = <<>> THEN <<>>
  ELSE (IF Head(events).type = type THEN Head(events).data ELSE <<>>)
         \o Payloads(Tail(events), type)

Count(events, type) == Cardinality({i \in DOMAIN events : events[i].type = type})

\* str contains sub as a contiguous part
Contains(str, sub) ==
  \E i \in 0 .. Len(str) - Len(sub) : SubSeq(str, i + 1, i + Len(sub)) = sub

Listening(c) == \E w \in WorkerIds : \E i \in DOMAIN listeners[w] : listeners[w][i].call = c

ExecutionFailed(message) == <<"Execution failed: ">> \o message

\* C1: an execution that ends with done returns the stdout payloads concatenated
\* in emission order, the stderr payloads concatenated in emission order, and
\* success = true.
C1_DoneResult ==
  \A c \in DOMAIN returns :
    returns[c].ending = "done" =>
      returns[c].result = [stdout |-> Payloads(returns[c].events, "stdout"),
                           stderr |-> Payloads(returns[c].events, "stderr"),
                           success |-> TRUE]

\* C1 witness: stdout("a"), stdout("b"), done has returned {"ab", "", true}.
C1_Witness ==
  \E c \in DOMAIN returns :
    /\ returns[c].ending = "done"
    /\ returns[c].events = <<Msg("stdout", <<"a">>, <<>>), Msg("stdout", <<"b">>, <<>>),
                             Msg("done", <<>>, <<>>)>>
    /\ returns[c].result = [stdout |-> <<"a", "b">>, stderr |-> <<>>, success |-> TRUE]

\* C2: an error(data) event during a running execution makes the call fulfil
\* (not reject) with success = false, data in stderr after the stderr received
\* before, the stdout received before, and the error event delivered to the
\* caller's handler exactly once, the listener being removed.
C2_ErrorEventResult ==
  \A c \in DOMAIN returns :
    returns[c].ending = "error" =>
      /\ returns[c].promise = "fulfilled"
      /\ returns[c].result.success = FALSE
      /\ Contains(returns[c].result.stderr, Boom)
      /\ returns[c].result.stderr = Payloads(returns[c].events, "stderr") \o Boom
      /\ returns[c].result.stdout = Payloads(returns[c].events, "stdout")
      /\ Count(returns[c].events, "error") = 1
      /\ ~Listening(c)

\* C2 witness: an error event after some output has ended an execution.
C2_Witness ==
  \E c \in DOMAIN returns :
    /\ returns[c].ending = "error"
    /\ returns[c].result.stdout # <<>>
    /\ Len(returns[c].result.stderr) > 1

RegisteredFor(l) == IF l \in DOMAIN inputHandlers THEN inputHandlers[l] ELSE DefaultHandler

\* C4 as claimed: an input request of an execution for language L is answered by
\* the handler registered for L when the request is processed, or by the default
\* handler when none is registered for L.
C4_HandlerOfLanguage ==
  \A i \in DOMAIN inputs : inputs[i].handler = RegisteredFor(inputs[i].language)

\* the input_response messages posted in the latest step
Responses == SelectSeq(posted, LAMBDA p : p[2].type = "input_response")

\* C5: each input handler outcome is answered by one input_response to the
\* worker of the request, carrying the handler's value, or '' when the handler
\* failed; a failure leaves the invocation where it was (a running execution
\* keeps running with its listener registered).
C5_InputResponse ==
  [][/\ Len(Responses') = Len(settled')
     /\ \A i \in DOMAIN settled' :
          /\ Responses'[i] = <<settled'[i].worker,
                               [type |-> "input_response",
                                value |-> IF settled'[i].ok THEN settled'[i].answer
                                                            ELSE <<>>]>>
          /\ ~settled'[i].ok /\ call[settled'[i].call].pc = "running" =>
               /\ call'[settled'[i].call].pc = "running"
               /\ listeners'[settled'[i].worker] = listeners[settled'[i].worker]]_vars

\* C5 witness: a registered handler has failed, '' has been posted and the
\* execution is still running.
C5_Witness ==
  \E i \in DOMAIN settled :
    /\ ~settled[i].ok
    /\ inputs = <<>>
    /\ posted = <<<<settled[i].worker, [type |-> "input_response", value |-> <<>>]>>>>
    /\ call[settled[i].call].pc = "running"
    /\ \E j \in DOMAIN listeners[settled[i].worker] :
         listeners[settled[i].worker][j] = ExListener(settled[i].call)

\* the failure messages of getOrCreateWorker for an invocation that ended as r did
SetupMessages(r) ==
  CASE r.ending = "setup" -> {<<"No executor found for language: ">> \o r.language}
    [] r.ending = "init" -> {<<"Worker initialization failed: ">> \o Boom,
                             <<"Worker error: ">> \o FaultMessage}
    [] r.ending = "init timeout" ->
         {<<"Worker for ">> \o r.language \o <<" failed to initialize within timeout">>}
    [] OTHER -> {}

\* C6: when obtaining a worker fails (no entry point, error or fault during the
\* handshake, handshake timeout) the call fulfils with success = false, stdout
\* '' and the failure message in stderr, after exactly one error event carrying
\* the message; without an entry point no worker is constructed and the session
\* and readiness maps stay as they were.
C6_SetupFailure ==
  [][\A c \in DOMAIN returns' :
       returns'[c].ending \in {"setup", "init", "init timeout"} =>
         /\ returns'[c].promise = "fulfilled"
         /\ \E m \in SetupMessages(returns'[c]) :
              /\ returns'[c].events = <<Msg("error", m, <<>>)>>
              /\ returns'[c].result.stderr = ExecutionFailed(m)
              /\ Contains(returns'[c].result.stderr, m)
         /\ returns'[c].result.stdout = <<>>
         /\ returns'[c].result.success = FALSE
         /\ returns'[c].ending = "setup" =>
              /\ returns'[c].language \notin DOMAIN workerPaths
              /\ nextWorker' = nextWorker
              /\ alive' = alive
              /\ workers' = workers
              /\ workerReady' = workerReady]_vars

\* C6 witness: a request for a language without entry point has returned while
\* another language has a session.
C6_Witness ==
  \E c \in DOMAIN returns :
    /\ returns[c].ending = "setup"
    /\ returns[c].language = rust
    /\ python \in DOMAIN workers

C8_NoOrphanWorker ==
  /\ \A w \in alive :
       /\ w < nextWorker
       /\ Cardinality({l \in DOMAIN workers : workers[l] = w}) = 1
  /\ Cardinality(alive) <= Cardinality(DOMAIN workers)

\* C8 witness: two requests for one language are in their handshakes at once;
\* the worker of the first has been terminated, the worker of the second is the
\* mapped one.
C8_Witness ==
  \E c, d \in Calls :
    /\ call[c].pc = "handshake" /\ call[d].pc = "handshake"
    /\ call[c].language = call[d].language
    /\ call[c].worker # call[d].worker
    /\ call[c].worker \notin alive
    /\ call[d].worker \in alive
    /\ workers[call[d].language] = call[d].worker

IsReady(ready, l) == l \in DOMAIN ready /\ ready[l]

\* C9 as claimed: the readiness flag of a language is true only if a session is
\* mapped and its worker has been seen ready; constructing a worker makes the
\* flag of its language false; and the flag becomes true only through the ready
\* message of the mapped worker while a handshake on it is pending.
C9_ReadinessFlag ==
  [][\A l \in DOMAIN workerReady' :
       /\ workerReady'[l] => l \in DOMAIN workers' /\ workers'[l] \in readyFrom'
       /\ (nextWorker' # nextWorker /\ l \in DOMAIN workers' /\ workers'[l] = nextWorker)
            => ~workerReady'[l]
       /\ (workerReady'[l] /\ ~IsReady(workerReady, l)) =>
            \E c \in Calls :
              /\ call[c].pc = "handshake"
              /\ call[c].language = l
              /\ l \in DOMAIN workers /\ call[c].worker = workers[l]]_vars

\* C9 without its last part, which holds: a true flag has a mapped worker that
\* has been seen ready, and a newly constructed worker's language is not ready.
C9_FlagOfMappedWorker ==
  [][\A l \in DOMAIN workerReady' :
       /\ workerReady'[l] => l \in DOMAIN workers' /\ workers'[l] \in readyFrom'
       /\ (nextWorker' # nextWorker /\ l \in DOMAIN workers' /\ workers'[l] = nextWorker)
            => ~workerReady'[l]]_vars

\* the invocations that enter getOrCreateWorker and go on in this step
Acquires(c) == call[c].pc = "idle" /\ call'[c].pc \in {"handshake", "running"}

\* C10: a request for a language whose session is ready goes to the mapped
\* worker, with no worker constructed or terminated and no handshake, and the
\* code is posted at once; a request for a language whose session is not ready
\* terminates the mapped worker, constructs and maps a new one, marks the
\* language not ready and starts a handshake, posting nothing.  Code is posted
\* only to a worker a ready message has been received from.
C10_ReuseAndReplace ==
  [][/\ \A c \in Calls :
          Acquires(c) /\ call'[c].language \in DOMAIN workers =>
            LET l == call'[c].language
            IN IF IsReady(workerReady, l)
                 THEN /\ call'[c].pc = "running"
                      /\ call'[c].worker = workers[l]
                      /\ workers' = workers /\ workerReady' = workerReady
                      /\ nextWorker' = nextWorker /\ alive' = alive
                      /\ hsTimer' = hsTimer
                      /\ posted' = <<<<workers[l], [type |-> "code", value |-> <<>>]>>>>
                 ELSE /\ call'[c].pc = "handshake"
                      /\ workers[l] \notin alive'
                      /\ nextWorker' = nextWorker + 1
                      /\ call'[c].worker = nextWorker
                      /\ workers' = MapSet(workers, l, nextWorker)
                      /\ workerReady' = MapSet(workerReady, l, FALSE)
                      /\ alive' = (alive \ {workers[l]}) \cup {nextWorker}
                      /\ hsTimer' = hsTimer \cup {c}
                      /\ posted' = <<>>
     /\ \A i \in DOMAIN posted' :
          posted'[i][2].type = "code" => posted'[i][1] \in readyFrom']_vars

\* C10 witness: the code of a second execution has just been posted to the
\* worker a first one is running on, and that worker replaced an earlier one.
C10_Witness ==
  \E c, d \in Calls :
    /\ c # d
    /\ call[c].pc = "running" /\ call[d].pc = "running"
    /\ call[c].worker = call[d].worker
    /\ call[c].worker > 1
    /\ alive = {call[c].worker}
    /\ posted = <<<<call[c].worker, [type |-> "code", value |-> <<>>]>>>>

\* the program's variables: all but the records of the latest step
state ==
  <<workers, workerPaths, workerReady, inputHandlers, nextWorker, alive, builtFrom,
    listeners, onerror, hsTimer, exTimer, call, pending, readyFrom, failed>>

\* C11: terminate() terminates the worker of every session and empties the
\* session map, the readiness flags and the input handlers, leaving the entry
\* points (getSupportedLanguages) as they were; when the three maps are empty
\* already it changes nothing; and a request made while the session map is
\* empty constructs a new worker and starts a handshake, posting no code.
C11_Terminate ==
  [][/\ terminate =>
          /\ \A l \in DOMAIN workers : workers[l] \notin alive'
          /\ alive' \subseteq alive
          /\ workers' = MapClear /\ workerReady' = MapClear /\ inputHandlers' = MapClear
          /\ workerPaths' = workerPaths
          /\ getSupportedLanguages' = getSupportedLanguages
          /\ nextWorker' = nextWorker
          /\ (workers = MapClear /\ workerReady = MapClear /\ inputHandlers = MapClear)
               => UNCHANGED state
     /\ \A c \in Calls :
          Acquires(c) /\ workers = MapClear =>
            /\ call'[c].pc = "handshake"
            /\ call'[c].worker = nextWorker
            /\ nextWorker \notin alive /\ nextWorker \in alive'
            /\ nextWorker' = nextWorker + 1
            /\ c \in hsTimer'
            /\ posted' = <<>>]_vars

\* C11 witness: terminate() has emptied the maps under a running execution
\* that had brought its own input handler, and a language registered later is
\* still supported.
C11_Witness ==
  /\ workers = MapClear /\ workerReady = MapClear /\ inputHandlers = MapClear
  /\ alive = {}
  /\ isLanguageSupported(RUST)
  /\ \E c \in Calls : call[c].pc = "running" /\ call[c].inputHandler = "h1"

\* C12: terminateLanguageWorker(L) terminates the worker mapped for the
\* lower-cased L and removes its session and readiness entry; the sessions,
\* workers and readiness flags of the other languages, the entry points and the
\* input handlers stay as they were; without a session for L nothing changes.
C12_TerminateLanguageWorker ==
  [][\A language \in LanguageInputs :
       terminateLanguageWorker(language) =>
         LET l == toLowerCase(language)
         IN /\ workerPaths' = workerPaths
            /\ inputHandlers' = inputHandlers
            /\ nextWorker' = nextWorker
            /\ l \in DOMAIN workers =>
                 /\ workers' = MapDelete(workers, l)
                 /\ workerReady' = MapDelete(workerReady, l)
                 /\ alive' = alive \ {workers[l]}
            /\ \A k \in DOMAIN workers \ {l} :
                 /\ k \in DOMAIN workers' /\ workers'[k] = workers[k]
                 /\ k \in DOMAIN workerReady' /\ workerReady'[k] = workerReady[k]
                 /\ workers[k] \in alive' <=> workers[k] \in alive
                 /\ listeners'[workers[k]] = listeners[workers[k]]
            /\ l \notin DOMAIN workers => UNCHANGED state]_vars

\* C12 witness: the session of a running execution's language has been
\* removed while the session of another language is alive and the input
\* handler the execution brought is still registered.
C12_Witness ==
  \E c \in Calls :
    /\ call[c].pc = "running"
    /\ call[c].worker \notin alive
    /\ call[c].language \notin DOMAIN workers
    /\ call[c].language \in DOMAIN inputHandlers
    /\ inputHandlers[call[c].language] = "h1"
    /\ \E k \in DOMAIN workers : workers[k] \in alive /\ IsReady(workerReady, k)

\* C13: registerExecutor(L, entryPoint) writes the entry point of the
\* lower-cased L and nothing else (the session of L, its worker and its
\* listeners stay), after which isLanguageSupported holds for L in any letter
\* case; the supported languages change by registerExecutor only; and a request
\* for a ready session goes to the mapped worker whatever entry point is
\* registered now, no worker being constructed.
C13_RegisterExecutor ==
  [][/\ \A language \in LanguageInputs, workerPath \in CustomPaths :
          registerExecutor(language, workerPath) =>
            /\ workerPaths' = MapSet(workerPaths, toLowerCase(language), workerPath)
            /\ UNCHANGED <<workers, workerReady, inputHandlers, nextWorker, alive,
                           builtFrom, listeners, hsTimer, exTimer, pending, readyFrom,
                           failed>>
            /\ \A other \in LanguageInputs :
                 toLowerCase(other) = toLowerCase(language) => isLanguageSupported(other)'
     /\ \A language \in LanguageInputs :
          isLanguageSupported(language)' # isLanguageSupported(language) =>
            /\ isLanguageSupported(language)'
            /\ \E given \in LanguageInputs, workerPath \in CustomPaths :
                 /\ toLowerCase(given) = toLowerCase(language)
                 /\ registerExecutor(given, workerPath)
     /\ \A c \in Calls :
          LET l == call'[c].language
          IN Acquires(c) /\ l \in DOMAIN workers /\ IsReady(workerReady, l) =>
               /\ call'[c].pc = "running"
               /\ call'[c].worker = workers[l]
               /\ workers[l] \in alive'
               /\ nextWorker' = nextWorker
               /\ builtFrom' = builtFrom]_vars

\* C13 witness: a second execution has just been sent to a ready worker that
\* was built from the entry point registered before the current one, and a
\* language registered in upper case is supported.
C13_Witness ==
  \E c, d \in Calls :
    /\ c # d
    /\ call[c].pc = "running" /\ call[d].pc = "running"
    /\ call[c].worker = call[d].worker
    /\ call[c].worker \in alive
    /\ builtFrom[call[c].worker] # workerPaths[call[c].language]
    /\ posted = <<<<call[c].worker, [type |-> "code", value |-> <<>>]>>>>
    /\ isLanguageSupported(rust)

\* the events the handler of invocation c has received so far, after the step
EventsAfter(c) == IF c \in DOMAIN returns' THEN returns'[c].events ELSE call'[c].events

\* a done or error message of the worker is among the events
Terminal(events) ==
  \E i \in DOMAIN events : events[i] \in {Msg("done", <<>>, <<>>), Msg("error", Boom, <<>>)}

\* C14: a message the worker posts while an execution is running on it is
\* appended, as it is, to what the execution's handler has received: once, after
\* the earlier ones, whatever its type and whether or not an input request of
\* the execution is still unanswered; and once a done or error message is among
\* the events of an invocation its handler receives nothing more.
C14_Forwarding ==
  [][/\ \A w \in WorkerIds, m \in Messages, env \in Outcomes :
          Asks(m, env) /\ WorkerMessage(w, m, env.ok, env.answer) =>
            \A c \in Calls :
              call[c].pc = "running" /\ call[c].worker = w =>
                EventsAfter(c) = Append(call[c].events, m)
     /\ \A c \in Calls :
          Terminal(call[c].events) =>
            /\ ~Listening(c)
            /\ call'[c].pc = "idle" \/ call'[c].events = call[c].events]_vars

\* C14 witness: an execution whose input request is still unanswered has
\* received stdout after the request, in the order posted.
C14_Witness ==
  \E c \in Calls :
    /\ call[c].pc = "running"
    /\ \E i \in DOMAIN pending : pending[i].call = c
    /\ call[c].events = <<Msg("input_request", <<>>, Prompt), Msg("stdout", <<"a">>, <<>>)>>

\* C15 as claimed: what execute() returns is what the executeWithEvents call
\* it makes returned, for every outcome.
C15_ExecuteEqualsInner ==
  \A c \in DOMAIN returns :
    returns[c].api = "execute" => returns[c].result = returns[c].inner

\* C15 apart from stdout, which holds: stderr and success of execute() are
\* those of the executeWithEvents call it makes, and so is stdout unless that
\* call returned ''.
C15_ExecuteFallback ==
  \A c \in DOMAIN returns :
    returns[c].api = "execute" =>
      /\ returns[c].result.stderr = returns[c].inner.stderr
      /\ returns[c].result.success = returns[c].inner.success
      /\ returns[c].inner.stdout # <<>> => returns[c].result.stdout = returns[c].inner.stdout

\* C16 as claimed: a result is returned only after a done or error message of
\* the worker has been received for the execution.
C16_ResultAfterTerminal ==
  \A c \in DOMAIN returns : Terminal(returns[c].events)

\* C16 amended: a result is returned either after a done or error message of
\* the worker, which is then the last event the handler received, or after a
\* failure caught by executeWithEvents (no entry point, failed handshake,
\* execution timeout, worker fault), in which case no done message was received
\* and the last event is the error event executeWithEvents made of the
\* failure; success is true exactly when the call ended on a done message.
C16_ResultAfterEnd ==
  \A c \in DOMAIN returns :
    LET r == returns[c]
        last == r.events[Len(r.events)]
    IN /\ r.events # <<>>
       /\ r.ending \in {"done", "error", "timeout", "fault", "setup", "init", "init timeout"}
       /\ r.ending = "done" => last = Msg("done", <<>>, <<>>)
       /\ r.ending = "error" => last = Msg("error", Boom, <<>>)
       /\ r.ending \notin {"done", "error"} =>
            /\ ~Terminal(r.events)
            /\ last.type = "error"
            /\ r.inner.stderr = ExecutionFailed(last.data)
       /\ r.result.success <=> r.ending = "done"
       /\ r.result.success <=> last.type = "done"

\* C16 witness: a result has been returned on the execution timer, after
\* output but no done or error message of the worker.
C16_Witness ==
  \E c \in DOMAIN returns :
    /\ returns[c].ending = "timeout"
    /\ Len(returns[c].events) = 3
    /\ ~Terminal(returns[c].events)
    /\ ~returns[c].result.success

\* C17 as claimed: after a worker has failed (error or fault during the
\* handshake, handshake timeout, fault during an execution) a request for its
\* language does not run on it: the request is given, and code is posted to,
\* only a worker that has not failed.
C17_AutoRestart ==
  [][/\ \A c \in Calls : Acquires(c) => failed'[call'[c].worker] = None
     /\ \A i \in DOMAIN posted' :
          posted'[i][2].type = "code" => failed'[posted'[i][1]] = None]_vars

\* C17 for a handshake that failed by an error message or a fault, which
\* holds: the worker is never given to a request again.
C17_RestartAfterInitFailure ==
  [][/\ \A c \in Calls : Acquires(c) => failed'[call'[c].worker] # "init"
     /\ \A i \in DOMAIN posted' :
          posted'[i][2].type = "code" => failed'[posted'[i][1]] # "init"]_vars

\* the invocations whose handshake on the still mapped, live worker fails in
\* this step
HandshakeFails(c) ==
  /\ c \in DOMAIN returns'
  /\ returns'[c].ending \in {"init", "init timeout"}
  /\ returns'[c].worker \in alive
  /\ returns'[c].language \in DOMAIN workers
  /\ workers[returns'[c].language] = returns'[c].worker

\* C18 as claimed: when a handshake fails (error message, fault or timeout)
\* the worker is terminated and the language is not ready, and no later request
\* is given that worker.
C18_FailedHandshakeTerminates ==
  [][/\ \A c \in Calls :
          HandshakeFails(c) =>
            /\ returns'[c].worker \notin alive'
            /\ ~IsReady(workerReady', returns'[c].language)
     /\ \A c \in Calls :
          Acquires(c) => failed'[call'[c].worker] \notin {"init", "init timeout"}]_vars

\* C18 as the code has it: when a handshake fails the worker stays alive and
\* mapped, with the language not ready.
C18_FailedHandshakeKeepsWorker ==
  [][\A c \in Calls :
       HandshakeFails(c) =>
         /\ returns'[c].worker \in alive'
         /\ workers' = workers
         /\ ~IsReady(workerReady', returns'[c].language)]_vars

\* nothing of the handshake of invocation c is registered any more
HandshakeOff(c) ==
  /\ c \notin hsTimer
  /\ \A w \in WorkerIds :
       /\ onerror[w] # HsListener(c)
       /\ \A i \in DOMAIN listeners[w] : listeners[w][i] # HsListener(c)

\* C19 as claimed: once the handshake of an invocation has had its outcome
\* (ready, error, fault or timeout) its message listener, its fault listener
\* and its timer are deregistered.
C19_HandshakeDeregistered ==
  \A c \in Calls : call[c].pc # "handshake" => HandshakeOff(c)

\* C19 for the timer and the message listener on the outcomes other than the
\* timeout, which holds (worker.onerror is reset on no path: the closure stays
\* until executeOnWorker or a later handshake overwrites it).
C19_DeregisteredUnlessTimeout ==
  \A c \in Calls :
    call[c].pc # "handshake" /\ call[c].ending # "init timeout" =>
      /\ c \notin hsTimer
      /\ \A w \in WorkerIds :
           \A i \in DOMAIN listeners[w] : listeners[w][i] # HsListener(c)

\* the message listener of the execution of invocation c is registered
ExecutionListening(c) ==
  \E w \in WorkerIds : \E i \in DOMAIN listeners[w] : listeners[w][i] = ExListener(c)

\* C20 as claimed: once a call has returned, by whatever outcome, the message
\* listener of its execution is not registered, and its handler receives no
\* further event.
C20_ListenerRemoved ==
  [][\A c \in Calls :
       call[c].pc = "returned" =>
         /\ ~ExecutionListening(c)
         /\ call'[c].pc = "returned" => call'[c].events = call[c].events]_vars

\* C20 for the outcomes other than the execution timeout, which holds.
C20_RemovedUnlessTimeout ==
  [][\A c \in Calls :
       call[c].pc = "returned" /\ call[c].ending # "timeout" =>
         /\ ~ExecutionListening(c)
         /\ call'[c].pc = "returned" => call'[c].events = call[c].events]_vars

\* worker w posts an input request while an execution is running on it
InputRequested(w) ==
  /\ \E c \in Calls : call[c].pc = "running" /\ call[c].worker = w
  /\ \E env \in Outcomes :
       WorkerMessage(w, Msg("input_request", <<>>, Prompt), env.ok, env.answer)

\* C21 as claimed: with executions run one after another on a session, an
\* input request of the worker is given to an input handler once, and what a
\* step sends back to the worker is at most one input_response, one for each
\* handler outcome.
C21_OneResponsePerRequest ==
  [][/\ \A w \in WorkerIds : InputRequested(w) => Len(inputs') = 1
     /\ Len(inputs') <= 1
     /\ Len(Responses') <= 1
     /\ Len(Responses') = Len(settled')]_vars

\* C21 while no returned call has left its listener behind, which holds.
C21_OneResponseUnlessLeft ==
  [][(\A c \in Calls : call[c].pc = "returned" => ~ExecutionListening(c)) =>
       /\ \A w \in WorkerIds : InputRequested(w) => Len(inputs') = 1
       /\ Len(inputs') <= 1
       /\ Len(Responses') <= 1
       /\ Len(Responses') = Len(settled')]_vars

\* the call of invocation c has not returned yet
InFlight(c) == call[c].pc \in {"handshake", "running"}

\* C22 as claimed: a call made with a positive timeout, in the request or in
\* the options, eventually completes, whatever the worker and the input
\* handler do and whether or not its session is terminated or replaced.
C22_TimeoutCompletes ==
  \A c \in Calls :
    (InFlight(c) /\ (call[c].requestTimeout # 0 \/ call[c].timeout # 0))
      ~> ~InFlight(c)

\* C22 for a timeout given in the options, which holds.
C22_OptionsTimeoutCompletes ==
  \A c \in Calls : (InFlight(c) /\ call[c].timeout # 0) ~> ~InFlight(c)

====
